---- MODULE Spec2Model ----
(***************************************************************************)
(* A model of intelligent_web_agent.py: the pipeline                       *)
(*   interpret_task -> fetch_webpage -> extract_information ->             *)
(*   save_results_to_file                                                   *)
(* run by execute_web_task from the __main__ block, with its JSON salvage  *)
(* parsing, the retry/fallback fetch loop, the table scan of               *)
(* extract_visual_elements and the report assembly.                        *)
(*                                                                         *)
(* Texts are sequences of one-character (or one-token) strings, so that    *)
(* find/rfind/slicing/replace are computed position by position.           *)
(***************************************************************************)
EXTENDS Integers, Sequences, FiniteSets, TLC

VARIABLES
    pc,             \* position of the process in __main__ / execute_web_task
    stage,          \* orchestrator state of section 4.8 (history of the run)
    stages,         \* the sequence of stages entered so far
    task,           \* task_description
    response_text,  \* response.text of the model call in the running frame
    call_out,       \* outcome of the callee that just finished
    task_info,      \* execute_web_task: task_info
    html_content,   \* execute_web_task: html_content
    result,         \* execute_web_task: result
    ret,            \* __main__: result (what execute_web_task returned)
    exc,            \* the uncaught exception that ended the process, or "none"
    saves,          \* log of the save_results_to_file invocations
    disk,           \* the report files in the working directory
    fpc,            \* position inside fetch_webpage
    f_url,          \* fetch_webpage: url
    f_max,          \* fetch_webpage: max_retries
    attempt,        \* fetch_webpage: the loop variable
    requests,       \* log of the GET requests sent by fetch_webpage
    sleeps,         \* number of time.sleep(2) calls made by fetch_webpage
    f_ret,          \* value returned by fetch_webpage
    visual,         \* value returned by extract_visual_elements
    report          \* outcome of a direct save_results_to_file call

vars == <<pc, stage, stages, task, response_text, call_out, task_info,
          html_content, result, ret, exc, saves, disk, fpc, f_url, f_max,
          attempt, requests, sleeps, f_ret, visual, report>>

pipeVars == <<pc, stage, stages, task, response_text, call_out, task_info,
              html_content, result, ret, exc, saves, disk>>

fetchVars == <<fpc, f_url, f_max, attempt, requests, sleeps, f_ret>>

pureVars == <<visual, report>>

(***************************************************************************)
(* Bounds of the model.                                                    *)
(***************************************************************************)
MaxText == 4        \* longest model response, in tokens
MaxRetries == 4     \* largest max_retries tried on fetch_webpage alone
MaxDoc == 4         \* longest table document, in rows and table breaks
MaxPad == 31        \* longest run of one character closing a task description
MaxChartRows == 6   \* most rows of a table handed to the report writer
MaxList == 2        \* longest numeric list in an extraction result

(***************************************************************************)
(* Small helpers on sequences.                                             *)
(***************************************************************************)
Range(s) == {s[i] : i \in 1..Len(s)}

SeqsUpTo(S, n) == UNION {[1..k -> S] : k \in 0..n}

Min(a, b) == IF a < b THEN a ELSE b

\* str.find(c) + 1, or 0 when absent (Python's -1)
Find(s, c) ==
    IF c \in Range(s) THEN CHOOSE i \in 1..Len(s) : s[i] = c /\ \A j \in 1..(i-1) : s[j] # c
    ELSE 0

\* str.rfind(c) + 1, or 0 when absent
RFind(s, c) ==
    IF c \in Range(s) THEN CHOOSE i \in 1..Len(s) : s[i] = c /\ \A j \in (i+1)..Len(s) : s[j] # c
    ELSE 0

(***************************************************************************)
(* Python values: dict, list, str, number, None.  Every value has the same *)
(* fields; a dict's items are <<key, val>> records in insertion order, a   *)
(* str's content is the sequence `chars`.                                  *)
(***************************************************************************)
None == [kind |-> "none", items |-> <<>>, chars |-> <<>>, n |-> 0]
Str(cs) == [kind |-> "str", items |-> <<>>, chars |-> cs, n |-> 0]
Num(k) == [kind |-> "num", items |-> <<>>, chars |-> <<>>, n |-> k]
List(vs) == [kind |-> "list", items |-> vs, chars |-> <<>>, n |-> 0]
Dict(kvs) == [kind |-> "dict", items |-> kvs, chars |-> <<>>, n |-> 0]
KV(k, v) == [key |-> k, val |-> v]

Keys(d) == {d.items[i].key : i \in 1..Len(d.items)}

\* d[k] for a dict d that has the key k
Get(d, k) == d.items[CHOOSE i \in 1..Len(d.items) : d.items[i].key = k].val

\* Python's `k in v` for the value kinds the pipeline handles: key membership
\* for a dict, substring for a str, element for a list.
In(k, v) ==
    CASE v.kind = "dict" -> k \in Keys(v)
      [] v.kind = "str" -> k \in Range(v.chars)
      [] v.kind = "list" -> \E i \in 1..Len(v.items) : v.items[i] = Str(<<k>>)
      [] OTHER -> FALSE

\* v[k] raises for anything but a dict holding k
Subscriptable(v, k) == v.kind = "dict" /\ k \in Keys(v)

SubscriptError(v) == IF v.kind = "dict" THEN "KeyError" ELSE "TypeError"

(***************************************************************************)
(* The outcome of a call: a returned value or a raised exception.          *)
(***************************************************************************)
Returned(v) == [raised |-> FALSE, exc |-> "none", val |-> v]
Raised(e) == [raised |-> TRUE, exc |-> e, val |-> None]
NoCall == [raised |-> FALSE, exc |-> "none", val |-> None]

(***************************************************************************)
(* URLs, as sequences of segments.                                         *)
(***************************************************************************)
UrlMapped == <<"https://", "www.fs.usda.gov", "/caves">>
UrlQuery == <<"https://", "search.example", "/?q=", "www.fs.usda.gov">>
UrlPlain == <<"https://", "example.com", "/">>
UrlAlt == <<"https://", "en.wikipedia.org/wiki/Yana_Caves">>

(***************************************************************************)
(* Model responses, as sequences of tokens.  "{" and "}" are the braces,   *)
(* "x" is a character of prose, "s" is the JSON string literal "error",    *)
(* and "E", "U", "B" are member lists of a JSON object.                    *)
(***************************************************************************)
BodyTokens == {"E", "U", "B"}
Tokens == {"{", "}", "x", "s"} \cup BodyTokens
Texts == SeqsUpTo(Tokens, MaxText)

MemberItems(tok) ==
    CASE tok = "E" -> <<KV("error", Str(<<"model", "error">>))>>
      [] tok = "U" -> <<KV("website_url", Str(UrlPlain))>>
      [] tok = "B" -> <<KV("website_url", Str(UrlMapped)),
                        KV("extraction_targets", List(<<Str(<<"overview">>)>>))>>

\* json.loads: the value of a text that is valid JSON, else a decode error.
JsonValid(text) ==
    \/ text = <<"s">>
    \/ text = <<"{", "}">>
    \/ Len(text) = 3 /\ text[1] = "{" /\ text[2] \in BodyTokens /\ text[3] = "}"

JsonValue(text) ==
    IF text = <<"s">> THEN Str(<<"error">>)
    ELSE IF Len(text) = 2 THEN Dict(<<>>)
    ELSE Dict(MemberItems(text[2]))

\* response_text[response_text.find('{'):response_text.rfind('}')+1]
BraceSlice(text) == SubSeq(text, Find(text, "{"), RFind(text, "}"))

HasBraces(text) == "{" \in Range(text) /\ "}" \in Range(text)

ParseFailure(msg, text) ==
    Dict(<<KV("error", Str(<<msg>>)), KV("raw_response", Str(text))>>)

\* interpret_task, from the model's response text on
InterpretParse(text) ==
    IF JsonValid(text) THEN Returned(JsonValue(text))
    ELSE IF HasBraces(text)
         THEN IF JsonValid(BraceSlice(text))
              THEN Returned(JsonValue(BraceSlice(text)))
              ELSE Raised("JSONDecodeError")
         ELSE Returned(ParseFailure("Could not parse response", text))

\* extract_information, from the model's response text on
ExtractParse(text) ==
    IF JsonValid(text) THEN Returned(JsonValue(text))
    ELSE IF HasBraces(text)
         THEN IF JsonValid(BraceSlice(text))
              THEN Returned(JsonValue(BraceSlice(text)))
              ELSE Returned(ParseFailure("Could not parse JSON from response", text))
         ELSE Returned(ParseFailure("Could not parse response", text))

(***************************************************************************)
(* HTML documents, as sequences of elements in document order.  A table's  *)
(* rows are sequences of cells and a cell is the sequence of characters of *)
(* its text.  The empty document is the empty string.                      *)
(***************************************************************************)
TextEl == [tag |-> "text", src |-> <<>>, rows |-> <<>>]
ImgEl(src) == [tag |-> "img", src |-> src, rows |-> <<>>]
TableEl(rows) == [tag |-> "table", src |-> <<>>, rows |-> rows]

EmptyPage == <<>>
PageFull ==
    <<TextEl, ImgEl(<<>>), ImgEl(<<"/a.png">>),
      TableEl(<< <<<<"k">>, <<"1">>>>, <<<<"m">>, <<"2", ",", "1">>>> >>)>>

Pages == {EmptyPage, PageFull}

\* what fetch_webpage hands back: a str, or None when the function falls off
\* its end
TextRet(body) == [isNone |-> FALSE, body |-> body]
NoneRet == [isNone |-> TRUE, body |-> <<>>]

\* Python truthiness of html_content
Truthy(h) == ~h.isNone /\ h.body # <<>>

(***************************************************************************)
(* get_alternative_url: the first entry of the table whose domain occurs   *)
(* in the URL gives "https://" + alt; <<>> stands for None.                *)
(***************************************************************************)
Alternatives ==
    <<[domain |-> "www.fs.usda.gov", alt |-> "en.wikipedia.org/wiki/Yana_Caves"]>>

NoUrl == <<>>

get_alternative_url(url) ==
    LET hits == {i \in 1..Len(Alternatives) : Alternatives[i].domain \in Range(url)}
    IN  IF hits = {} THEN NoUrl
        ELSE <<"https://", Alternatives[CHOOSE i \in hits : \A j \in hits : i <= j].alt>>

(***************************************************************************)
(* fetch_webpage(url, max_retries), one action per step of its loop.       *)
(***************************************************************************)
Req(url, ok, body) == [url |-> url, ok |-> ok, body |-> body]

\* for attempt in range(max_retries): the first iteration, or none at all
FetchEnter ==
    /\ fpc = "call"
    /\ attempt' = 0
    /\ IF f_max > 0
       THEN fpc' = "get" /\ f_ret' = f_ret
       ELSE fpc' = "returned" /\ f_ret' = NoneRet
    /\ UNCHANGED <<f_url, f_max, requests, sleeps>>
    /\ UNCHANGED <<pipeVars, pureVars>>

\* requests.get + raise_for_status succeed: return response.text
FetchGetOk ==
    /\ fpc = "get"
    /\ \E body \in Pages :
         /\ requests' = Append(requests, Req(f_url, TRUE, body))
         /\ f_ret' = TextRet(body)
    /\ fpc' = "returned"
    /\ UNCHANGED <<f_url, f_max, attempt, sleeps>>
    /\ UNCHANGED <<pipeVars, pureVars>>

\* FetchGetFail with the last attempt taken to be number max_retries
FetchGetFail_OffByOne ==
    /\ fpc = "get"
    /\ requests' = Append(requests, Req(f_url, FALSE, EmptyPage))
    /\ IF attempt = f_max
       THEN IF get_alternative_url(f_url) # NoUrl
            THEN fpc' = "alt" /\ f_ret' = f_ret
            ELSE fpc' = "returned" /\ f_ret' = TextRet(EmptyPage)
       ELSE fpc' = "sleep" /\ f_ret' = f_ret
    /\ UNCHANGED <<f_url, f_max, attempt, sleeps>>
    /\ UNCHANGED <<pipeVars, pureVars>>

\* a RequestException: on the last attempt look for an alternative, else
\* go on to the sleep
FetchGetFail ==
    /\ fpc = "get"
    /\ requests' = Append(requests, Req(f_url, FALSE, EmptyPage))
    /\ IF attempt = f_max - 1
       THEN IF get_alternative_url(f_url) # NoUrl
            THEN fpc' = "alt" /\ f_ret' = f_ret
            ELSE fpc' = "returned" /\ f_ret' = TextRet(EmptyPage)
       ELSE fpc' = "sleep" /\ f_ret' = f_ret
    /\ UNCHANGED <<f_url, f_max, attempt, sleeps>>
    /\ UNCHANGED <<pipeVars, pureVars>>

\* time.sleep(2), then the next iteration of the loop
FetchSleep ==
    /\ fpc = "sleep"
    /\ sleeps' = sleeps + 1
    /\ attempt' = attempt + 1
    /\ fpc' = "get"
    /\ UNCHANGED <<f_url, f_max, requests, f_ret>>
    /\ UNCHANGED <<pipeVars, pureVars>>

\* the one request to the alternative URL succeeds
FetchAltOk ==
    /\ fpc = "alt"
    /\ \E body \in Pages :
         /\ requests' = Append(requests, Req(get_alternative_url(f_url), TRUE, body))
         /\ f_ret' = TextRet(body)
    /\ fpc' = "returned"
    /\ UNCHANGED <<f_url, f_max, attempt, sleeps>>
    /\ UNCHANGED <<pipeVars, pureVars>>

\* the one request to the alternative URL fails: except: pass, return ""
FetchAltFail ==
    /\ fpc = "alt"
    /\ requests' = Append(requests, Req(get_alternative_url(f_url), FALSE, EmptyPage))
    /\ f_ret' = TextRet(EmptyPage)
    /\ fpc' = "returned"
    /\ UNCHANGED <<f_url, f_max, attempt, sleeps>>
    /\ UNCHANGED <<pipeVars, pureVars>>

FetchNext ==
    \/ FetchEnter
    \/ FetchGetOk
    \/ FetchGetFail
    \/ FetchSleep
    \/ FetchAltOk
    \/ FetchAltFail

(***************************************************************************)
(* The default file name of save_results_to_file.  Characters are classed  *)
(* as the regular expression classes \w and \s class them.                 *)
(***************************************************************************)
SlugLen == 30

WordChars ==
    {"a", "b", "c", "d", "e", "f", "h", "i", "l", "m", "n", "o", "p", "r", "s",
     "t", "u", "w", "A", "F", "I", "5", "_"}
SpaceChars == {" ", "\t"}

\* re.sub(r'[^\w\s]', '', task_description)
RECURSIVE StripPunct(_)
StripPunct(s) ==
    IF s = <<>> THEN <<>>
    ELSE IF Head(s) \in WordChars \cup SpaceChars
         THEN <<Head(s)>> \o StripPunct(Tail(s))
         ELSE StripPunct(Tail(s))

\* str.replace(' ', '_')
ReplaceSpace(s) == [i \in 1..Len(s) |-> IF s[i] = " " THEN "_" ELSE s[i]]

\* safe_task
Slug(t) == SubSeq(ReplaceSpace(StripPunct(t)), 1, Min(SlugLen, Len(StripPunct(t))))

DefaultFilename(t) == Slug(t) \o <<"_results.pdf">>

DefaultTask ==
    <<"F", "i", "n", "d", " ", "t", "h", "e", " ", "t", "o", "p", " ", "5",
      " ", "A", "I", " ", "r", "e", "l", "a", "t", "e", "d", " ", "h", "e",
      "a", "d", "l", "i", "n", "e", "s", " ", "f", "r", "o", "m", " ", "a",
      " ", "r", "e", "p", "u", "t", "a", "b", "l", "e", " ", "t", "e", "c",
      "h", " ", "n", "e", "w", "s", " ", "s", "i", "t", "e">>

(***************************************************************************)
(* extract_visual_elements.                                                *)
(***************************************************************************)
Digits == {"0", "1", "2"}

\* str.strip() of a cell text
RECURSIVE LStrip(_)
LStrip(s) == IF s # <<>> /\ Head(s) = " " THEN LStrip(Tail(s)) ELSE s

RECURSIVE RStrip(_)
RStrip(s) ==
    IF s # <<>> /\ s[Len(s)] = " " THEN RStrip(SubSeq(s, 1, Len(s) - 1)) ELSE s

Strip(s) == RStrip(LStrip(s))

\* str.replace(',', '')
RemoveCommas(s) == SelectSeq(s, LAMBDA c : c # ",")

\* float(s) succeeds: an optional sign and one or more digits (the part of
\* float's grammar that the cell alphabet can spell)
IsFloat(s) ==
    LET body == IF s # <<>> /\ Head(s) = "-" THEN Tail(s) ELSE s
    IN  body # <<>> /\ \A i \in 1..Len(body) : body[i] \in Digits

DigitVal(c) == CASE c = "0" -> 0 [] c = "1" -> 1 [] c = "2" -> 2

RECURSIVE DigitsVal(_)
DigitsVal(s) ==
    IF s = <<>> THEN 0 ELSE 10 * DigitsVal(SubSeq(s, 1, Len(s) - 1)) + DigitVal(s[Len(s)])

\* float(s) for a text that parses
FloatVal(s) == IF Head(s) = "-" THEN 0 - DigitsVal(Tail(s)) ELSE DigitsVal(s)

EmptyData == [labels |-> <<>>, values |-> <<>>]

\* RowStep with the label appended before the value is parsed
RowStep_LabelFirst(data, cols) ==
    IF Len(cols) >= 2
    THEN IF IsFloat(RemoveCommas(Strip(cols[2])))
         THEN [labels |-> Append(data.labels, Strip(cols[1])),
               values |-> Append(data.values, FloatVal(RemoveCommas(Strip(cols[2]))))]
         ELSE [data EXCEPT !.labels = Append(data.labels, Strip(cols[1]))]
    ELSE data

\* the body of `for row in table.find_all('tr')`
RowStep(data, cols) ==
    IF Len(cols) >= 2 /\ IsFloat(RemoveCommas(Strip(cols[2])))
    THEN [labels |-> Append(data.labels, Strip(cols[1])),
          values |-> Append(data.values, FloatVal(RemoveCommas(Strip(cols[2]))))]
    ELSE data

RECURSIVE TableData(_)
TableData(rows) ==
    IF rows = <<>> THEN EmptyData
    ELSE RowStep(TableData(SubSeq(rows, 1, Len(rows) - 1)), rows[Len(rows)])

\* if data['labels'] and data['values']: visual_elements['charts'].append(data)
RECURSIVE Charts(_)
Charts(tables) ==
    IF tables = <<>> THEN <<>>
    ELSE LET data == TableData(Head(tables).rows)
         IN  IF data.labels # <<>> /\ data.values # <<>>
             THEN <<data>> \o Charts(Tail(tables))
             ELSE Charts(Tail(tables))

IsAbsolute(src) == src[1] \in {"http://", "https://"}

\* urljoin(base_url, src) for a path: scheme and host of the base, then src
UrlJoin(base, src) == SubSeq(base, 1, Min(2, Len(base))) \o src

RECURSIVE Images(_, _)
Images(imgs, base) ==
    IF imgs = <<>> THEN <<>>
    ELSE LET src == Head(imgs).src
         IN  IF src = <<>> THEN Images(Tail(imgs), base)
             ELSE <<IF IsAbsolute(src) THEN src ELSE UrlJoin(base, src)>>
                  \o Images(Tail(imgs), base)

extract_visual_elements(html, base_url) ==
    [images |-> Images(SelectSeq(html, LAMBDA e : e.tag = "img"), base_url),
     charts |-> Charts(SelectSeq(html, LAMBDA e : e.tag = "table"))]

(***************************************************************************)
(* save_results_to_file: the flowables appended to `elements`, in order.   *)
(***************************************************************************)
PieMax == 5
ImageLimit == 3

Para(what) == [el |-> "Paragraph", kind |-> what, key |-> "", data |-> EmptyData, url |-> <<>>]
Spacer == [el |-> "Spacer", kind |-> "", key |-> "", data |-> EmptyData, url |-> <<>>]
ImageOf(u) == [el |-> "Image", kind |-> "", key |-> "", data |-> EmptyData, url |-> u]
Chart(k, key, d) == [el |-> "Chart", kind |-> k, key |-> key, data |-> d, url |-> <<>>]

\* for img_url in visual_elements['images'][:3], where download_image
\* succeeds for the images whose index is in `got`
RECURSIVE ImageElements(_, _, _)
ImageElements(urls, i, got) ==
    IF i > Min(ImageLimit, Len(urls)) THEN <<>>
    ELSE (IF i \in got THEN <<ImageOf(urls[i]), Spacer>> ELSE <<>>)
         \o ImageElements(urls, i + 1, got)

\* TableChartKind with a strict comparison
TableChartKind_Strict(chart_data) == IF Len(chart_data.labels) < PieMax THEN "pie" ELSE "bar"

\* the kind of chart drawn for one table-derived record
TableChartKind(chart_data) == IF Len(chart_data.labels) <= PieMax THEN "pie" ELSE "bar"

RECURSIVE ChartElements(_)
ChartElements(charts) ==
    IF charts = <<>> THEN <<>>
    ELSE <<Chart(TableChartKind(Head(charts)), "", Head(charts)), Spacer>>
         \o ChartElements(Tail(charts))

\* isinstance(item, (int, float))
IsNumber(v) == v.kind = "num"

\* len(value) > 0 and all(isinstance(item, (int, float)) for item in value)
CanVisualize(value) ==
    Len(value.items) > 0 /\ \A i \in 1..Len(value.items) : IsNumber(value.items[i])

\* str(i) for a natural number i
DigitChar(d) ==
    CASE d = 0 -> "0" [] d = 1 -> "1" [] d = 2 -> "2" [] d = 3 -> "3" [] d = 4 -> "4"
      [] d = 5 -> "5" [] d = 6 -> "6" [] d = 7 -> "7" [] d = 8 -> "8" [] d = 9 -> "9"

RECURSIVE NatStr(_)
NatStr(k) == IF k < 10 THEN <<DigitChar(k)>> ELSE NatStr(k \div 10) \o <<DigitChar(k % 10)>>

\* chart_data of a numeric list: labels are the indices, values the list
IndexLabels(k) == [i \in 1..k |-> NatStr(i - 1)]

LineData(value) ==
    [labels |-> IndexLabels(Len(value.items)),
     values |-> [i \in 1..Len(value.items) |-> value.items[i].n]]

\* for i, item in enumerate(value, 1)
RECURSIVE EntryElements(_)
EntryElements(items) ==
    IF items = <<>> THEN <<>>
    ELSE (IF Head(items).kind = "dict"
          THEN <<Para("index")>> \o [j \in 1..Len(Head(items).items) |-> Para("pair")]
          ELSE <<Para("entry")>>)
         \o EntryElements(Tail(items))

\* the body of `for key, value in result.items()`
FieldElements(key, value) ==
    IF value.kind = "list"
    THEN <<[Para("heading") EXCEPT !.key = key]>>
         \o (IF CanVisualize(value) THEN <<Chart("line", key, LineData(value)), Spacer>> ELSE <<>>)
         \o EntryElements(value.items)
         \o <<Spacer>>
    ELSE <<[Para("field") EXCEPT !.key = key]>>

RECURSIVE ResultElements(_)
ResultElements(kvs) ==
    IF kvs = <<>> THEN <<>>
    ELSE FieldElements(Head(kvs).key, Head(kvs).val) \o ResultElements(Tail(kvs))

Header == <<Para("title"), Para("timestamp"), Spacer>>

\* if html_content and base_url: images and table charts
VisualPart(html, base_url, got) ==
    IF Truthy(html) /\ base_url # NoUrl
    THEN LET visual_elements == extract_visual_elements(html.body, base_url)
         IN  ImageElements(visual_elements.images, 1, got)
             \o ChartElements(visual_elements.charts)
    ELSE <<>>

Saved(name, els) == [raised |-> FALSE, exc |-> "none", filename |-> name, elements |-> els]
SaveRaised(e) == [raised |-> TRUE, exc |-> e, filename |-> <<>>, elements |-> <<>>]
NoReport == [raised |-> FALSE, exc |-> "none", filename |-> <<>>, elements |-> <<>>]

\* save_results_to_file(result, task_description, html_content, base_url)
\* with filename=None; `got` are the images that download
save_results_to_file(res, t, html, base_url, got) ==
    LET head == Header \o VisualPart(html, base_url, got)
    IN  CASE res.kind \in {"none", "num"} -> SaveRaised("TypeError")
          [] In("error", res) ->
               IF ~Subscriptable(res, "error") THEN SaveRaised("TypeError")
               ELSE Saved(DefaultFilename(t),
                          head \o <<Para("error")>>
                          \o (IF In("raw_response", res)
                              THEN <<Para("raw_heading"), Para("raw_response")>>
                              ELSE <<>>))
          [] res.kind # "dict" -> SaveRaised("AttributeError")
          [] OTHER ->
               Saved(DefaultFilename(t),
                     head \o <<Para("info_heading")>> \o ResultElements(res.items))

\* the images of the first three that download_image may or may not get
Downloads(html, base_url) ==
    IF Truthy(html) /\ base_url # NoUrl
    THEN SUBSET (1..Min(ImageLimit, Len(extract_visual_elements(html.body, base_url).images)))
    ELSE {{}}

(***************************************************************************)
(* The process: __main__ and execute_web_task.                             *)
(***************************************************************************)
DefaultRetries == 3

TaskInputs == {<<>>, <<"A", "I", " ", "!">>}

NoVisual == [images |-> <<>>, charts |-> <<>>]

FetchIdle ==
    /\ fpc = "idle"
    /\ f_url = NoUrl
    /\ f_max = 0
    /\ attempt = 0
    /\ requests = <<>>
    /\ sleeps = 0
    /\ f_ret = NoneRet

\* the frame of fetch_webpage is gone once it has returned
FetchReset ==
    /\ fpc' = "idle"
    /\ f_url' = NoUrl
    /\ f_max' = 0
    /\ attempt' = 0
    /\ requests' = <<>>
    /\ sleeps' = 0
    /\ f_ret' = NoneRet

PipeIdle(p) ==
    /\ pc = p
    /\ stage = "IDLE"
    /\ stages = <<>>
    /\ response_text = <<>>
    /\ call_out = NoCall
    /\ task_info = None
    /\ ret = None
    /\ exc = "none"
    /\ saves = <<>>
    /\ disk = {}

Init ==
    /\ PipeIdle("start")
    /\ result = None
    /\ task = <<>>
    /\ html_content = NoneRet
    /\ FetchIdle
    /\ visual = NoVisual
    /\ report = NoReport

Enter(st) == stage' = st /\ stages' = Append(stages, st)

Crash(e) == pc' = "crashed" /\ exc' = e

CountEl(els, what) == Len(SelectSeq(els, LAMBDA e : e.el = what))

SaveCall(who, html, out) ==
    [by |-> who, with_html |-> Truthy(html), filename |-> DefaultFilename(task),
     completed |-> ~out.raised, images |-> CountEl(out.elements, "Image"),
     charts |-> CountEl(out.elements, "Chart")]

WriteFile(out) ==
    {f \in disk : f.name # out.filename} \cup {[name |-> out.filename, elements |-> out.elements]}

\* task = input(...), the default for an empty line, and the call of
\* execute_web_task, which starts with interpret_task
ReadTask ==
    /\ pc = "start"
    /\ \E t \in TaskInputs : task' = IF t = <<>> THEN DefaultTask ELSE t
    /\ pc' = "interpret"
    /\ Enter("INTERPRET")
    /\ UNCHANGED <<response_text, call_out, task_info, html_content, result, ret, exc,
                   saves, disk, fetchVars, pureVars>>

\* interpret_task: the model answers with some text, which is parsed
InterpretTask ==
    /\ pc = "interpret"
    /\ \E text \in Texts :
         /\ response_text' = text
         /\ call_out' = InterpretParse(text)
    /\ pc' = "interp_ret"
    /\ UNCHANGED <<stage, stages, task, task_info, html_content, result, ret, exc,
                   saves, disk, fetchVars, pureVars>>

\* execute_web_task from the return of interpret_task to the call of
\* fetch_webpage
AfterInterpret ==
    /\ pc = "interp_ret"
    /\ response_text' = <<>>
    /\ call_out' = NoCall
    /\ IF call_out.raised
       THEN /\ Crash(call_out.exc)
            /\ UNCHANGED <<stage, stages, task_info, ret, fetchVars>>
       ELSE /\ task_info' = call_out.val
            /\ IF In("error", call_out.val)
               THEN /\ ret' = call_out.val
                    /\ Enter("FAILED")
                    /\ pc' = "main_save"
                    /\ UNCHANGED <<exc, fetchVars>>
               ELSE IF ~Subscriptable(call_out.val, "website_url")
               THEN /\ Crash(SubscriptError(call_out.val))
                    /\ UNCHANGED <<stage, stages, ret, fetchVars>>
               ELSE /\ Enter("FETCH")
                    /\ pc' = "fetch"
                    /\ fpc' = "call"
                    /\ f_url' = Get(call_out.val, "website_url").chars
                    /\ f_max' = DefaultRetries
                    /\ UNCHANGED <<ret, exc, attempt, requests, sleeps, f_ret>>
    /\ UNCHANGED <<task, html_content, result, saves, disk, pureVars>>

FailedFetch ==
    Dict(<<KV("error", Str(<<"Failed to fetch webpage content">>)),
           KV("overview", List(<<Str(<<"Unable to retrieve information. Please try again later.">>)>>))>>)

\* execute_web_task from the return of fetch_webpage to the call of
\* extract_information
AfterFetch ==
    /\ pc = "fetch"
    /\ fpc = "returned"
    /\ html_content' = f_ret
    /\ IF ~Truthy(f_ret)
       THEN /\ ret' = FailedFetch
            /\ Enter("FAILED")
            /\ pc' = "main_save"
            /\ exc' = exc
       ELSE IF ~Subscriptable(task_info, "extraction_targets")
       THEN /\ Crash(SubscriptError(task_info))
            /\ UNCHANGED <<stage, stages, ret>>
       ELSE /\ Enter("EXTRACT")
            /\ pc' = "extract"
            /\ UNCHANGED <<ret, exc>>
    /\ FetchReset
    /\ UNCHANGED <<task, response_text, call_out, task_info, result, saves, disk, pureVars>>

\* extract_information: the model answers with some text, which is parsed
ExtractInformation ==
    /\ pc = "extract"
    /\ \E text \in Texts :
         /\ response_text' = text
         /\ call_out' = ExtractParse(text)
    /\ pc' = "extract_ret"
    /\ UNCHANGED <<stage, stages, task, task_info, html_content, result, ret, exc,
                   saves, disk, fetchVars, pureVars>>

\* result = extract_information(...)
AfterExtract ==
    /\ pc = "extract_ret"
    /\ response_text' = <<>>
    /\ call_out' = NoCall
    /\ IF call_out.raised
       THEN Crash(call_out.exc) /\ UNCHANGED <<stage, stages, result>>
       ELSE /\ result' = call_out.val
            /\ Enter("REPORT")
            /\ pc' = "report"
            /\ exc' = exc
    /\ UNCHANGED <<task, task_info, html_content, ret, saves, disk, fetchVars, pureVars>>

\* save_results_to_file(result, task_description, html_content, base_url)
\* and `return result`
OrchestratorSave ==
    /\ pc = "report"
    /\ \E got \in Downloads(html_content, Get(task_info, "website_url").chars) :
         LET out == save_results_to_file(result, task, html_content,
                                         Get(task_info, "website_url").chars, got)
         IN  /\ saves' = Append(saves, SaveCall("orchestrator", html_content, out))
             /\ IF out.raised
                THEN Crash(out.exc) /\ UNCHANGED <<stage, stages, ret, disk>>
                ELSE /\ disk' = WriteFile(out)
                     /\ ret' = result
                     /\ Enter("DONE")
                     /\ pc' = "main_save"
                     /\ exc' = exc
    /\ UNCHANGED <<task, response_text, call_out, task_info, html_content, result,
                   fetchVars, pureVars>>

\* MainSave handing the page and its URL to save_results_to_file again
MainSave_WithHtml ==
    /\ pc = "main_save"
    /\ \E got \in Downloads(html_content, UrlPlain) :
         LET out == save_results_to_file(ret, task, html_content, UrlPlain, got)
         IN  /\ saves' = Append(saves, SaveCall("main", NoneRet, out))
             /\ IF out.raised
                THEN Crash(out.exc) /\ disk' = disk
                ELSE pc' = "exit" /\ disk' = WriteFile(out) /\ exc' = exc
    /\ UNCHANGED <<stage, stages, task, response_text, call_out, task_info,
                   html_content, result, ret, fetchVars, pureVars>>

\* __main__ after execute_web_task: print the result, then
\* save_results_to_file(result, task)
MainSave ==
    /\ pc = "main_save"
    /\ LET out == save_results_to_file(ret, task, NoneRet, NoUrl, {})
       IN  /\ saves' = Append(saves, SaveCall("main", NoneRet, out))
           /\ IF out.raised
              THEN Crash(out.exc) /\ disk' = disk
              ELSE pc' = "exit" /\ disk' = WriteFile(out) /\ exc' = exc
    /\ UNCHANGED <<stage, stages, task, response_text, call_out, task_info,
                   html_content, result, ret, fetchVars, pureVars>>

Next ==
    \/ ReadTask
    \/ InterpretTask
    \/ AfterInterpret
    \/ FetchNext
    \/ AfterFetch
    \/ ExtractInformation
    \/ AfterExtract
    \/ OrchestratorSave
    \/ MainSave

Spec == Init /\ [][Next]_vars

(***************************************************************************)
(* fetch_webpage on its own, for any URL and retry count.                  *)
(***************************************************************************)
Urls == {UrlMapped, UrlQuery, UrlPlain}

FetchInit ==
    /\ PipeIdle("unit")
    /\ result = None
    /\ task = <<>>
    /\ html_content = NoneRet
    /\ fpc = "call"
    /\ f_url \in Urls
    /\ f_max \in 0..MaxRetries
    /\ attempt = 0
    /\ requests = <<>>
    /\ sleeps = 0
    /\ f_ret = NoneRet
    /\ visual = NoVisual
    /\ report = NoReport

FetchSpec == FetchInit /\ [][FetchNext]_vars

\* requests.get has a timeout and time.sleep returns: a call that has a
\* step to take takes it
FairFetchSpec == FetchSpec /\ WF_vars(FetchNext)

(***************************************************************************)
(* extract_visual_elements on its own.  A document is spelled as a         *)
(* sequence of sample rows and table breaks.                               *)
(***************************************************************************)
Break == <<<<"|">>>>

SampleRows ==
    { <<<<"k">>, <<"1">>>>,
      <<<<"m">>, <<"2", ",", "1">>>>,
      <<<<"k">>, <<"m">>>>,
      <<<<"1">>>>,
      <<<<" ", "m">>, <<" ", "-", "1", " ">>, <<"k">>>>,
      <<<<>>, <<",">>>> }

RECURSIVE SplitTables(_, _)
SplitTables(items, rows) ==
    IF items = <<>> THEN <<TableEl(rows)>>
    ELSE IF Head(items) = Break
         THEN <<TableEl(rows)>> \o SplitTables(Tail(items), <<>>)
         ELSE SplitTables(Tail(items), Append(rows, Head(items)))

TableDocs == {SplitTables(d, <<>>) : d \in SeqsUpTo(SampleRows \cup {Break}, MaxDoc)}

ImageDocs == {<<ImgEl(<<"https://", "img.example", "/b.png">>), ImgEl(<<"/a.png">>)>>}

VisualInit ==
    /\ PipeIdle("unit")
    /\ result = None
    /\ task = <<>>
    /\ html_content \in {TextRet(d) : d \in TableDocs \cup ImageDocs}
    /\ FetchIdle
    /\ visual = NoVisual
    /\ report = NoReport

ExtractVisual ==
    /\ pc = "unit"
    /\ visual' = extract_visual_elements(html_content.body, UrlPlain)
    /\ pc' = "done"
    /\ UNCHANGED <<stage, stages, task, response_text, call_out, task_info, html_content,
                   result, ret, exc, saves, disk, fetchVars, report>>

VisualSpec == VisualInit /\ [][ExtractVisual]_vars

(***************************************************************************)
(* save_results_to_file on its own: the default file name.                 *)
(***************************************************************************)
SlugChars == {"a", "_", " ", "\t", "!"}

Rep(c, k) == [i \in 1..k |-> c]

SlugTasks ==
    {p \o Rep(c, k) : p \in SeqsUpTo(SlugChars, 2), c \in SlugChars, k \in 0..MaxPad}

SlugInit ==
    /\ PipeIdle("unit")
    /\ result = Dict(<<>>)
    /\ task \in SlugTasks
    /\ html_content = NoneRet
    /\ FetchIdle
    /\ visual = NoVisual
    /\ report = NoReport

SaveReport ==
    /\ pc = "unit"
    /\ \E got \in Downloads(html_content, UrlPlain) :
         report' = save_results_to_file(result, task, html_content, UrlPlain, got)
    /\ pc' = "done"
    /\ UNCHANGED <<stage, stages, task, response_text, call_out, task_info, html_content,
                   result, ret, exc, saves, disk, fetchVars, visual>>

SlugSpec == SlugInit /\ [][SaveReport]_vars

(***************************************************************************)
(* save_results_to_file on its own: the charts of the report.              *)
(***************************************************************************)
NumRow == <<<<"k">>, <<"1">>>>

ChartDocs ==
    {<<ImgEl(<<"/a.png">>), TableEl(Rep(NumRow, j)), TableEl(Rep(NumRow, k))>> :
        j \in {0, MaxChartRows - 1}, k \in 0..MaxChartRows}

NumLists == {List([i \in 1..k |-> Num(i)]) : k \in 0..MaxList}

FieldValues ==
    NumLists \cup
    { List(<<Str(<<"t">>)>>),
      List(<<Num(1), Str(<<"t">>)>>),
      List(<<Dict(<<KV("name", Str(<<"t">>))>>)>>),
      Str(<<"t">>) }

ReportResults ==
    {Dict(<<>>)}
    \cup {Dict(<<KV("overview", v)>>) : v \in FieldValues}
    \cup {Dict(<<KV("overview", v), KV("key_details", w)>>) : v \in FieldValues, w \in FieldValues}
    \cup {Dict(<<KV("error", Str(<<"e">>)), KV("values", v)>>) : v \in NumLists}
    \cup {ParseFailure("Could not parse response", <<"x">>)}

ReportInit ==
    /\ PipeIdle("unit")
    /\ task = <<"A", "I">>
    /\ result \in ReportResults
    /\ html_content \in {NoneRet} \cup {TextRet(d) : d \in ChartDocs}
    /\ FetchIdle
    /\ visual = NoVisual
    /\ report = NoReport

ReportSpec == ReportInit /\ [][SaveReport]_vars

(***************************************************************************)
(* The claims.                                                             *)
(***************************************************************************)
IsPrefix(p, q) == Len(p) <= Len(q) /\ SubSeq(q, 1, Len(p)) = p

\* execute_web_task has ended, by a return or by an exception
RunEnded == pc \in {"main_save", "exit", "crashed"}

HasErrorKey(v) == v.kind = "dict" /\ "error" \in Keys(v)

\* C1: every run of execute_web_task enters the stages in the order
\* INTERPRET, FETCH, EXTRACT, REPORT, DONE, each at most once; the only other
\* way a run ends is FAILED, entered from INTERPRET when the interpretation
\* holds the key "error" or from FETCH when the content is empty; after
\* FAILED the orchestrator runs no later stage.
C1_StageMachine ==
    /\ \/ IsPrefix(stages, <<"INTERPRET", "FETCH", "EXTRACT", "REPORT", "DONE">>)
       \/ stages = <<"INTERPRET", "FAILED">>
       \/ stages = <<"INTERPRET", "FETCH", "FAILED">>
    /\ RunEnded => stage \in {"DONE", "FAILED"}
    /\ stages = <<"INTERPRET", "FAILED">> => In("error", task_info)
    /\ stages = <<"INTERPRET", "FETCH", "FAILED">> => ~Truthy(html_content)
    /\ stage = "FAILED" =>
         /\ result = None
         /\ \A i \in 1..Len(saves) : saves[i].by = "main"
         /\ stages[Len(stages)] = "FAILED"

\* C2: once execute_web_task has a non-error interpretation and non-empty
\* page content, it calls save_results_to_file with the page and the URL,
\* that call completes before it returns, and it returns the result of
\* extract_information, an error payload included.
C2_ReportBeforeReturn ==
    (RunEnded /\ ~In("error", task_info) /\ Truthy(html_content)) =>
        /\ pc # "crashed" \/ stage = "DONE"
        /\ stage = "DONE"
        /\ Len(saves) >= 1
        /\ saves[1].by = "orchestrator"
        /\ saves[1].with_html
        /\ saves[1].completed
        /\ ret = result

\* C3: no run from the entry point ends with an uncaught exception; every
\* run ends with a result payload and a completed report write.
C3_NoFatalFailure ==
    /\ pc # "crashed"
    /\ pc = "exit" =>
         /\ ret.kind = "dict"
         /\ \E i \in 1..Len(saves) : saves[i].completed

\* the request log of one fetch_webpage call
Original(i) == requests[i].url = f_url
AllFailed == \A i \in 1..Len(requests) : ~requests[i].ok

\* C4: for any URL and any retry count >= 0 fetch_webpage returns the body
\* of the first successful response, and returns the empty string (a str,
\* never None) when every attempt fails.
C4_FetchReturn ==
    fpc = "returned" =>
        /\ ~f_ret.isNone
        /\ \A i \in 1..Len(requests) :
             requests[i].ok =>
                /\ f_ret.body = requests[i].body
                /\ \A j \in 1..(i - 1) : ~requests[j].ok
        /\ AllFailed => f_ret.body = EmptyPage

\* C5: one call with retry count N sends at most N requests to the URL, a
\* sleep separates consecutive failed attempts (N-1 when all fail, none
\* after the last), the first success ends the call, the alternative URL is
\* requested at most once, after the N-th failure and only for a URL holding
\* a domain of the table, and the call terminates.
C5_Counts ==
    LET n == Len(requests)
        originals == Cardinality({i \in 1..n : Original(i)})
    IN  /\ originals <= f_max
        /\ \A i \in 1..n : requests[i].ok => i = n /\ fpc = "returned"
        /\ \A i \in 1..n :
             ~Original(i) =>
                /\ i = f_max + 1
                /\ i = n
                /\ \A j \in 1..f_max : Original(j) /\ ~requests[j].ok
                /\ \E k \in 1..Len(Alternatives) : Alternatives[k].domain \in Range(f_url)
                /\ requests[i].url = UrlAlt
        /\ sleeps <= originals
        /\ fpc = "get" => sleeps = originals
        /\ fpc = "returned" => sleeps = (IF originals = 0 THEN 0 ELSE originals - 1)
        /\ (fpc = "returned" /\ AllFailed /\ f_max >= 1) =>
             originals = f_max /\ sleeps = f_max - 1

\* C5: the counts above hold throughout a call of fetch_webpage, and the
\* call terminates.
C5_RetryProtocol == []C5_Counts /\ <>(fpc = "returned")

C5_Witness ==
    /\ fpc = "returned"
    /\ f_max = 3
    /\ Len(requests) = 4
    /\ sleeps = 2
    /\ AllFailed

\* the salvage contract for a response text and the outcome of its parse
SalvageContract(text, out) ==
    /\ ~out.raised
    /\ (~JsonValid(text) /\ HasBraces(text) /\ JsonValid(BraceSlice(text))) =>
          out.val = JsonValue(SubSeq(text, Find(text, "{"), RFind(text, "}")))
    /\ (~JsonValid(text) /\ ~(HasBraces(text) /\ JsonValid(BraceSlice(text)))) =>
          /\ HasErrorKey(out.val)
          /\ "raw_response" \in Keys(out.val)
          /\ Get(out.val, "raw_response") = Str(text)

\* C6: in interpret_task and in extract_information alike, when the direct
\* parse fails the text from the first '{' to the last '}' is parsed, and
\* when that fails too, or there are no braces, the operation returns an
\* object with an "error" key and the original text as raw_response; it
\* never raises.
C6_SalvageBothSites ==
    pc \in {"interp_ret", "extract_ret"} => SalvageContract(response_text, call_out)

\* a row of a table that gives a chart entry
Parsable(row) == Len(row) >= 2 /\ IsFloat(RemoveCommas(Strip(row[2])))

TablesOf(html) == SelectSeq(html, LAMBDA e : e.tag = "table")

C8_SlugSafe ==
    pc = "done" =>
        /\ ~report.raised
        /\ Len(report.filename) >= 1
        /\ report.filename[Len(report.filename)] = "_results.pdf"
        /\ LET slug == SubSeq(report.filename, 1, Len(report.filename) - 1)
           IN  /\ Len(slug) <= 30
               /\ \A i \in 1..Len(slug) : slug[i] \in WordChars

TableCharts(els) == SelectSeq(els, LAMBDA e : e.el = "Chart" /\ e.kind # "line")
LineCharts(els, key) ==
    SelectSeq(els, LAMBDA e : e.el = "Chart" /\ e.kind = "line" /\ e.key = key)

TableChartsRight ==
    Truthy(html_content) =>
        LET charts == extract_visual_elements(html_content.body, UrlPlain).charts
            drawn == TableCharts(report.elements)
        IN  /\ Len(drawn) = Len(charts)
            /\ \A i \in 1..Len(charts) :
                 /\ drawn[i].data = charts[i]
                 /\ drawn[i].kind = (IF Len(charts[i].labels) <= 5 THEN "pie" ELSE "bar")

AllNumbers(v) == \A i \in 1..Len(v.items) : v.items[i].kind = "num"

\* C9 as amended: every table-derived chart record gives exactly one chart,
\* a pie for 5 or fewer labels and a bar otherwise; every non-empty list
\* field of a non-error result whose entries are all numbers gives a line
\* chart, whatever its length.
C9_ChartKinds ==
    (pc = "done" /\ ~report.raised) =>
        /\ TableChartsRight
        /\ ~HasErrorKey(result) =>
             \A i \in 1..Len(result.items) :
                LET f == result.items[i]
                IN  (f.val.kind = "list" /\ Len(f.val.items) > 0 /\ AllNumbers(f.val)) =>
                        Len(LineCharts(report.elements, f.key)) = 1

\* C9 as stated: ... every list field of a non-error result whose entries
\* are all numbers gives a line chart, whatever its length.
C9_AnyLength ==
    (pc = "done" /\ ~report.raised) =>
        /\ TableChartsRight
        /\ ~HasErrorKey(result) =>
             \A i \in 1..Len(result.items) :
                LET f == result.items[i]
                IN  (f.val.kind = "list" /\ AllNumbers(f.val)) =>
                        Len(LineCharts(report.elements, f.key)) = 1

C9_Witness ==
    /\ pc = "done"
    /\ \E i \in 1..Len(report.elements) :
         report.elements[i].kind = "pie" /\ Len(report.elements[i].data.labels) = 5
    /\ \E i \in 1..Len(report.elements) :
         report.elements[i].kind = "bar" /\ Len(report.elements[i].data.labels) = 6
    /\ \E i \in 1..Len(report.elements) :
         report.elements[i].kind = "line" /\ Len(report.elements[i].data.values) = 2

ProcessEnded == pc \in {"exit", "crashed"}

====
